---- MODULE Spec2Model ----
(***************************************************************************)
(* The balance pollers of SignedInScreen.tsx (useEvmBalance,               *)
(* useSolanaBalance), the four instances SignedInScreen creates, and the   *)
(* formatter formatSol.                                                    *)
(*                                                                         *)
(* One lifetime of one SignedInScreen instance is modelled: it is mounted  *)
(* once and unmounted once.  Fetches that are in flight are kept per       *)
(* poller in issue order; the network answers them in any order.           *)
(***************************************************************************)
EXTENDS Integers, Sequences, FiniteSets, TLC

\* Most network calls the screen may have in flight at once, all pollers together.
MaxInFlight == 2

Null == "null"
\* The balance before its first setBalance; balances themselves are not negative.
Undefined == -1
\* No interval to clear: setInterval ids start at 1.
NoCleanup == 0

EvmAddresses == {"0xA"}
\* "notBase58" is a string new PublicKey() rejects.
SolanaAddresses == {"So1", "notBase58"}
\* What a network getBalance may return (wei, lamports).
Values == {0, 1}

Pollers == {"base", "baseSepolia", "solanaMainnet", "solanaDevnet"}

Kind(p) == IF p \in {"base", "baseSepolia"} THEN "evm" ELSE "solana"

\* The third argument of each hook call in SignedInScreen (default false).
Poll(p) == p # "solanaMainnet"

\* new PublicKey(address) returns (TRUE) or throws (FALSE).
IsPublicKey(a) == a = "So1"

VARIABLES
    lifecycle,      \* "new", "mounted" or "unmounted"
    evmAddress,     \* useEvmAddress().evmAddress
    solanaAddress,  \* useSolanaAddress().solanaAddress
    balance,        \* per poller: the useState cell
    inflight,       \* per poller: addresses of the network calls awaited, oldest first
    intervals,      \* per poller: live setInterval timers [id, address captured]
    cleanup,        \* per poller: the interval id the effect's cleanup will clear
    lastOp,         \* the operation that led to this state
    lamports,       \* a Solana balance (bigint) to format, as digits to the base 1000
    formatted       \* the string formattedBalance gives for it

pollerVars == <<lifecycle, evmAddress, solanaAddress, balance, inflight,
                intervals, cleanup, lastOp>>

formatVars == <<lamports, formatted>>

vars == <<pollerVars, formatVars>>

AddressOf(p) == IF Kind(p) = "evm" THEN evmAddress ELSE solanaAddress

Hook(p) == [balance |-> balance[p], inflight |-> inflight[p], promise |-> "none"]

NewHook == [balance |-> Undefined, inflight |-> <<>>, promise |-> "none"]

\* getBalance without its "if (!address) return".
getBalanceNoAddressGuard(p, a, h) ==
    IF a # Null /\ Kind(p) = "solana" /\ ~IsPublicKey(a)
    THEN [h EXCEPT !.balance = 0, !.promise = "fulfilled"]
    ELSE [h EXCEPT !.inflight = Append(@, a), !.promise = "pending"]

\* getBalance that fetches only for a poller that polls.
getBalanceOnlyWhenPolling(p, a, h) ==
    IF a = Null \/ ~Poll(p)
    THEN [h EXCEPT !.promise = "fulfilled"]
    ELSE IF Kind(p) = "solana" /\ ~IsPublicKey(a)
    THEN [h EXCEPT !.balance = 0, !.promise = "fulfilled"]
    ELSE [h EXCEPT !.inflight = Append(@, a), !.promise = "pending"]

\* getBalance, up to its first await: the hook after the call, and the state
\* of the promise the call returned.
getBalance(p, a, h) ==
    IF a = Null
    THEN [h EXCEPT !.promise = "fulfilled"]
    ELSE IF Kind(p) = "solana" /\ ~IsPublicKey(a)
    THEN [h EXCEPT !.balance = 0, !.promise = "fulfilled"]
    ELSE [h EXCEPT !.inflight = Append(@, a), !.promise = "pending"]

\* setInterval's return value: an id no live timer of the poller has.
FreshId(ivs) ==
    CHOOSE n \in 1..(Cardinality(ivs) + 1) :
        /\ \A t \in ivs : t.id # n
        /\ \A m \in 1..(n - 1) : \E t \in ivs : t.id = m

\* The polling effect without its first getBalance() call.
pollingEffectNoFirstFetch(p, a, h, ivs) ==
    IF ~Poll(p)
    THEN [hook |-> h, intervals |-> ivs, cleanup |-> NoCleanup]
    ELSE LET id == FreshId(ivs)
         IN  [hook |-> h,
              intervals |-> ivs \cup {[id |-> id, address |-> a, due |-> FALSE]},
              cleanup |-> id]

\* The polling effect returning early, as for !poll, when there is no address.
pollingEffectNeedsAddress(p, a, h, ivs) ==
    IF ~Poll(p) \/ a = Null
    THEN [hook |-> h, intervals |-> ivs, cleanup |-> NoCleanup]
    ELSE LET id == FreshId(ivs)
         IN  [hook |-> getBalance(p, a, h),
              intervals |-> ivs \cup {[id |-> id, address |-> a, due |-> FALSE]},
              cleanup |-> id]

\* The body of the polling effect, with getBalance closed over address a.
pollingEffect(p, a, h, ivs) ==
    IF ~Poll(p)
    THEN [hook |-> h, intervals |-> ivs, cleanup |-> NoCleanup]
    ELSE LET id == FreshId(ivs)
         IN  [hook |-> getBalance(p, a, h),
              intervals |-> ivs \cup {[id |-> id, address |-> a, due |-> FALSE]},
              cleanup |-> id]

\* A cleanup that clears nothing.
effectCleanupKeeps(ivs, c) == ivs

\* The function the effect returned: clearInterval(interval).
effectCleanup(ivs, c) == {t \in ivs : t.id # c}

\* A change of the effect's dependencies: the old cleanup, then the effect.
rerunEffect(p, a) ==
    pollingEffect(p, a, Hook(p), effectCleanup(intervals[p], cleanup[p]))

\* Network calls in flight, all pollers together.
InFlightTotal(f) ==
    Len(f["base"]) + Len(f["baseSepolia"]) + Len(f["solanaMainnet"])
        + Len(f["solanaDevnet"])

RemoveAt(s, i) == SubSeq(s, 1, i - 1) \o SubSeq(s, i + 1, Len(s))

\* lastOp: the operation, its poller, the state of the promise of the getBalance
\* call it ran or settled, the position of the fetch settled, the value the
\* network returned, and the balance before a failure.
Op(o, p, pr, i, v) ==
    [op |-> o, p |-> p, promise |-> pr, idx |-> i, val |-> v, was |-> Undefined]

Init ==
    /\ lifecycle = "new"
    /\ evmAddress \in EvmAddresses \cup {Null}
    /\ solanaAddress \in SolanaAddresses \cup {Null}
    /\ balance = [p \in Pollers |-> Undefined]
    /\ inflight = [p \in Pollers |-> <<>>]
    /\ intervals = [p \in Pollers |-> {}]
    /\ cleanup = [p \in Pollers |-> NoCleanup]
    /\ lastOp = Op("init", "none", "none", 0, Undefined)
    /\ lamports = <<>>
    /\ formatted = <<>>

\* First render and commit of SignedInScreen: four hooks, four effects.
Mount ==
    /\ lifecycle = "new"
    /\ LET r == [p \in Pollers |-> pollingEffect(p, AddressOf(p), NewHook, {})]
       IN  /\ lifecycle' = "mounted"
           /\ balance' = [p \in Pollers |-> r[p].hook.balance]
           /\ inflight' = [p \in Pollers |-> r[p].hook.inflight]
           /\ intervals' = [p \in Pollers |-> r[p].intervals]
           /\ cleanup' = [p \in Pollers |-> r[p].cleanup]
    /\ lastOp' = Op("mount", "none", "none", 0, Undefined)
    /\ UNCHANGED <<evmAddress, solanaAddress, formatVars>>

\* The screen is removed: every effect's cleanup runs.
Unmount ==
    /\ lifecycle = "mounted"
    /\ lifecycle' = "unmounted"
    /\ intervals' = [p \in Pollers |-> effectCleanup(intervals[p], cleanup[p])]
    /\ cleanup' = [p \in Pollers |-> NoCleanup]
    /\ lastOp' = Op("unmount", "none", "none", 0, Undefined)
    /\ UNCHANGED <<evmAddress, solanaAddress, balance, inflight, formatVars>>

\* A hook's address changes: getBalance is a new callback, so the effects of
\* the pollers of that kind are cleaned up and run again.
Readdress(kind, a) ==
    LET r == [p \in Pollers |->
                IF Kind(p) = kind
                THEN rerunEffect(p, a)
                ELSE [hook |-> Hook(p), intervals |-> intervals[p],
                      cleanup |-> cleanup[p]]]
    IN  /\ balance' = [p \in Pollers |-> r[p].hook.balance]
        /\ inflight' = [p \in Pollers |-> r[p].hook.inflight]
        /\ InFlightTotal(inflight') <= MaxInFlight
        /\ intervals' = [p \in Pollers |-> r[p].intervals]
        /\ cleanup' = [p \in Pollers |-> r[p].cleanup]
        /\ lastOp' = Op("address", kind, "none", 0, Undefined)
        /\ UNCHANGED <<lifecycle, formatVars>>

SetEvmAddress(a) ==
    /\ lifecycle = "mounted"
    /\ a # evmAddress
    /\ evmAddress' = a
    /\ Readdress("evm", a)
    /\ UNCHANGED solanaAddress

SetSolanaAddress(a) ==
    /\ lifecycle = "mounted"
    /\ a # solanaAddress
    /\ solanaAddress' = a
    /\ Readdress("solana", a)
    /\ UNCHANGED evmAddress

\* The 500 ms of a live interval timer of poller p run out: its tick is due.
Elapse(p) ==
    \E t \in intervals[p] :
        /\ ~t.due
        /\ intervals' = [intervals EXCEPT
                            ![p] = (@ \ {t}) \cup {[t EXCEPT !.due = TRUE]}]
        /\ lastOp' = Op("elapse", p, "none", 0, Undefined)
        /\ UNCHANGED <<lifecycle, evmAddress, solanaAddress, balance, inflight,
                cleanup, formatVars>>

\* A due interval timer of poller p fires and calls the getBalance it holds;
\* the timer then waits for its next 500 ms.
Tick(p) ==
    \E t \in intervals[p] :
        LET h == getBalance(p, t.address, Hook(p))
        IN  /\ t.due
            /\ balance' = [balance EXCEPT ![p] = h.balance]
            /\ inflight' = [inflight EXCEPT ![p] = h.inflight]
            /\ InFlightTotal(inflight') <= MaxInFlight
            /\ intervals' = [intervals EXCEPT
                                ![p] = (@ \ {t}) \cup {[t EXCEPT !.due = FALSE]}]
            /\ lastOp' = Op("tick", p, h.promise, 0, Undefined)
            /\ UNCHANGED <<lifecycle, evmAddress, solanaAddress, cleanup,
                    formatVars>>

\* A widget calls the onSuccess it was given: the poller's current getBalance.
Refresh(p) ==
    /\ lifecycle = "mounted"
    /\ LET h == getBalance(p, AddressOf(p), Hook(p))
       IN  /\ balance' = [balance EXCEPT ![p] = h.balance]
           /\ inflight' = [inflight EXCEPT ![p] = h.inflight]
           /\ InFlightTotal(inflight') <= MaxInFlight
           /\ lastOp' = Op("refresh", p, h.promise, 0, Undefined)
    /\ UNCHANGED <<lifecycle, evmAddress, solanaAddress, intervals, cleanup,
                    formatVars>>

\* A state update that keeps a balance already known.
setBalanceFirstWins(old, v) == IF old = Undefined THEN v ELSE old

\* The state update after the await: setBalance(balance), setBalance(BigInt(lamports)).
setBalanceOnSuccess(old, v) == v

\* No fallback value on failure, for either kind.
setBalanceOnErrorKeeps(p, old) == old

\* What a failed await leaves in the useState cell.
setBalanceOnError(p, old) == IF Kind(p) = "solana" THEN 0 ELSE old

\* Failures caught for either kind.
promiseOnErrorCaught(p) == "fulfilled"

\* The promise of a getBalance call whose await failed.
promiseOnError(p) == IF Kind(p) = "solana" THEN "fulfilled" ELSE "rejected"

\* The network answers the i-th fetch in flight of poller p with v.
Resolve(p, i, v) ==
    /\ i \in 1..Len(inflight[p])
    /\ balance' = [balance EXCEPT ![p] = setBalanceOnSuccess(@, v)]
    /\ inflight' = [inflight EXCEPT ![p] = RemoveAt(@, i)]
    /\ lastOp' = Op("resolve", p, "fulfilled", i, v)
    /\ UNCHANGED <<lifecycle, evmAddress, solanaAddress, intervals, cleanup,
                    formatVars>>

\* The i-th fetch in flight of poller p fails.
FetchFails(p, i) ==
    /\ i \in 1..Len(inflight[p])
    /\ balance' = [balance EXCEPT ![p] = setBalanceOnError(p, @)]
    /\ inflight' = [inflight EXCEPT ![p] = RemoveAt(@, i)]
    /\ lastOp' = [Op("fail", p, promiseOnError(p), 0, Undefined)
                      EXCEPT !.was = balance[p]]
    /\ UNCHANGED <<lifecycle, evmAddress, solanaAddress, intervals, cleanup,
                    formatVars>>

Next ==
    \/ Mount
    \/ Unmount
    \/ \E a \in EvmAddresses \cup {Null} : SetEvmAddress(a)
    \/ \E a \in SolanaAddresses \cup {Null} : SetSolanaAddress(a)
    \/ \E p \in Pollers : Elapse(p)
    \/ \E p \in Pollers : Tick(p)
    \/ \E p \in Pollers : Refresh(p)
    \/ \E p \in Pollers, i \in 1..MaxInFlight, v \in Values : Resolve(p, i, v)
    \/ \E p \in Pollers, i \in 1..MaxInFlight : FetchFails(p, i)

Spec == Init /\ [][Next]_vars

(***************************************************************************)
(* formatSol and the numbers it works on.  A bigint is a sequence of       *)
(* digits to the base 1000, least significant first, without leading       *)
(* zeros; a Number (IEEE 754 double) is [m, e] for m * 2^e.  A string is a *)
(* sequence of one-character strings.                                      *)
(***************************************************************************)

\* Significant bits of a Number.
MantissaBits == 53

\* LAMPORTS_PER_SOL of @solana/web3.js is 10^9.
LamportsPerSolDigits == 9

maxDecimalPlaces == 9

Base == 10^3

BaseDigits == 3

Max(S) == CHOOSE m \in S : \A x \in S : x <= m

\* a without leading zeros
Trim(a) == SubSeq(a, 1, Max({0} \cup {i \in 1..Len(a) : a[i] # 0}))

Low(a) == IF a = <<>> THEN 0 ELSE Head(a)

Rest(a) == IF a = <<>> THEN <<>> ELSE Tail(a)

RECURSIVE FromInt(_)
FromInt(n) == IF n = 0 THEN <<>> ELSE <<n % Base>> \o FromInt(n \div Base)

RECURSIVE AddCarry(_, _, _)
AddCarry(a, b, c) ==
    IF a = <<>> /\ b = <<>>
    THEN FromInt(c)
    ELSE LET t == Low(a) + Low(b) + c
         IN  <<t % Base>> \o AddCarry(Rest(a), Rest(b), t \div Base)

Plus(a, b) == AddCarry(a, b, 0)

RECURSIVE MulCarry(_, _, _)
MulCarry(a, k, c) ==
    IF a = <<>>
    THEN FromInt(c)
    ELSE LET t == Head(a) * k + c
         IN  <<t % Base>> \o MulCarry(Tail(a), k, t \div Base)

\* a * k for a small k
Times(a, k) == IF k = 0 THEN <<>> ELSE MulCarry(a, k, 0)

Less(a, b) ==
    IF Len(a) # Len(b)
    THEN Len(a) < Len(b)
    ELSE LET differ == {i \in 1..Len(a) : a[i] # b[i]}
         IN  differ # {} /\ a[Max(differ)] < b[Max(differ)]

\* a * 10^k
TimesTenTo(a, k) ==
    IF a = <<>>
    THEN <<>>
    ELSE Times([i \in 1..(k \div BaseDigits) |-> 0] \o a, 10^(k % BaseDigits))

\* a * 2^k, sixteen doublings at a time
RECURSIVE TimesTwoTo(_, _)
TimesTwoTo(a, k) ==
    IF k >= 16 THEN TimesTwoTo(Times(a, 2^16), k - 16) ELSE Times(a, 2^k)

\* Division by a small k, from digit i of a downwards: st.r is the remainder
\* of the digits above i, st.q their quotient.
RECURSIVE ShortDivFrom(_, _, _, _)
ShortDivFrom(a, k, i, st) ==
    IF i = 0
    THEN st
    ELSE LET t == st.r * Base + a[i]
         IN  IF t < k
             THEN ShortDivFrom(a, k, i - 1, [q |-> <<0>> \o st.q, r |-> t])
             ELSE ShortDivFrom(a, k, i - 1, [q |-> <<t \div k>> \o st.q, r |-> t % k])

\* [q, r] with a = q * k + r and r < k, for a small k
ShortDiv(a, k) ==
    LET st == ShortDivFrom(a, k, Len(a), [q |-> <<>>, r |-> 0])
    IN  [q |-> Trim(st.q), r |-> st.r]

\* [q, exact] with q the integer part of a / 2^k, sixteen halvings at a time,
\* and exact saying that nothing was cut off
RECURSIVE DivTwoTo(_, _)
DivTwoTo(a, k) ==
    IF k >= 16
    THEN LET high == ShortDiv(a, 2^16)
             rest == DivTwoTo(high.q, k - 16)
         IN  [q |-> rest.q, exact |-> rest.exact /\ high.r = 0]
    ELSE LET low == ShortDiv(a, 2^k)
         IN  [q |-> low.q, exact |-> low.r = 0]

\* Scale n/d by 2^k or 2^-k for as long as this takes it no further than into
\* lo <= n < 2 * lo; lo is d * 2^(MantissaBits-1), up and down count the
\* doublings of n and of d.
RECURSIVE ScaleBy(_, _)
ScaleBy(f, k) ==
    IF Less(TimesTwoTo(f.n, k), Times(f.lo, 2))
    THEN ScaleBy([f EXCEPT !.n = TimesTwoTo(@, k), !.up = @ + k], k)
    ELSE IF ~Less(f.n, TimesTwoTo(f.lo, k))
    THEN ScaleBy([f EXCEPT !.lo = TimesTwoTo(@, k), !.down = @ + k], k)
    ELSE f

\* The Number nearest to n / k for a small k, ties to even (IEEE 754
\* round-to-nearest): [m, e] for m * 2^e, with m of MantissaBits bits.
RoundToNumber(n, k) ==
    IF n = <<>>
    THEN [m |-> <<>>, e |-> 0]
    ELSE LET f0 == [n |-> n, lo |-> TimesTwoTo(FromInt(k), MantissaBits - 1),
                    up |-> 0, down |-> 0]
             f == ScaleBy(ScaleBy(ScaleBy(f0, 16), 4), 1)
             \* twice the scaled quotient: its last bit is the half
             byK == ShortDiv(Times(f.n, 2), k)
             cut == DivTwoTo(byK.q, f.down)
             half == ShortDiv(cut.q, 2)
             exact == byK.r = 0 /\ cut.exact
             roundUp == half.r = 1 /\ (~exact \/ Low(half.q) % 2 = 1)
         IN  [m |-> IF roundUp THEN Plus(half.q, <<1>>) ELSE half.q,
              e |-> f.down - f.up]

\* Number(balance)
NumberOf(b) == RoundToNumber(b, 1)

\* 5^9: LAMPORTS_PER_SOL is 2^9 * 5^9
FiveToNine == 5^LamportsPerSolDigits

\* x / LAMPORTS_PER_SOL
DivideByLamportsPerSol(x) ==
    LET y == RoundToNumber(x.m, FiveToNine)
    IN  [m |-> y.m, e |-> y.e + x.e - LamportsPerSolDigits]

DigitChar(k) == <<"0", "1", "2", "3", "4", "5", "6", "7", "8", "9">>[k + 1]

\* The decimal digits of a, least significant first.
RECURSIVE Decimal(_)
Decimal(a) ==
    IF a = <<>>
    THEN <<>>
    ELSE LET t == Head(a)
         IN  IF Tail(a) = <<>>
             THEN Trim(<<t % 10, (t \div 10) % 10, t \div 100>>)
             ELSE <<t % 10, (t \div 10) % 10, t \div 100>> \o Decimal(Tail(a))

\* Decimal digits, least significant first, as characters, most significant first.
Chars(ds) == [i \in 1..Len(ds) |-> DigitChar(ds[Len(ds) + 1 - i])]

\* ds with zeros up to k digits
PadTo(ds, k) == IF Len(ds) >= k THEN ds ELSE ds \o [i \in 1..(k - Len(ds)) |-> 0]

\* The decimal digits ds with a point before the last k
PointBefore(ds, k) ==
    LET p == PadTo(ds, k + 1)
    IN  Chars(SubSeq(p, k + 1, Len(p))) \o <<".">> \o Chars(SubSeq(p, 1, k))

\* x.toFixed(k) for 0 <= x < 10^21: the digits of the integer N for which
\* N / 10^k - x is as close to zero as possible, the larger N of two.
toFixed(x, k) ==
    LET scaled == TimesTenTo(x.m, k)
        N == IF x.e >= 0
             THEN TimesTwoTo(scaled, x.e)
             ELSE DivTwoTo(Plus(Times(scaled, 2), TimesTwoTo(<<1>>, -x.e)),
                           1 - x.e).q
    IN  PointBefore(Decimal(N), k)

\* str.replace(/0+$/, "")
StripZeros(str) ==
    SubSeq(str, 1, Max({0} \cup {i \in 1..Len(str) : str[i] # "0"}))

\* str.replace(/\.$/, "")
StripPoint(str) ==
    IF str # <<>> /\ str[Len(str)] = "."
    THEN SubSeq(str, 1, Len(str) - 1)
    ELSE str

formatSol(x) == StripPoint(StripZeros(toFixed(DivideByLamportsPerSol(x), maxDecimalPlaces)))

\* The memo of useSolanaBalance for a balance that is defined.
formattedBalance(b) == formatSol(NumberOf(b))

\* Balances to format: whole SOL and a fraction of one SOL, in lamports.
WholeSol == {0, 1, 10, 100, 1500, 8388607, 8388608, 9007199, 20000000, 123456789, 600000000}

Fractions == {0, 1, 10, 1000, 100000000, 123456789, 254740991, 254740992,
              254740993, 500000000, 999999999}

\* whole * 10^9 + fraction
Lamports(whole, fraction) ==
    Trim(PadTo(FromInt(fraction), LamportsPerSolDigits \div BaseDigits) \o FromInt(whole))

InitFormat ==
    /\ lifecycle = "new"
    /\ evmAddress = Null
    /\ solanaAddress = Null
    /\ balance = [p \in Pollers |-> Undefined]
    /\ inflight = [p \in Pollers |-> <<>>]
    /\ intervals = [p \in Pollers |-> {}]
    /\ cleanup = [p \in Pollers |-> NoCleanup]
    /\ lastOp = Op("init", "none", "none", 0, Undefined)
    /\ \E w \in WholeSol, f \in Fractions : lamports = Lamports(w, f)
    /\ formatted = <<>>

\* The render after setBalance: the memo computes the string.
Format ==
    /\ formatted = <<>>
    /\ formatted' = formattedBalance(lamports)
    /\ UNCHANGED <<pollerVars, lamports>>

NextFormat == Format

SpecFormat == InitFormat /\ [][NextFormat]_vars

(***************************************************************************)
(* Properties of the pollers                                               *)
(***************************************************************************)

Activated(o, p) == o.op = "mount" \/ (o.op = "address" /\ o.p = Kind(p))

\* C1 as stated: while a poller's address stays absent, no network call is
\* issued for it and its Balance does not change.
C1_AsStated ==
    [][\A p \in Pollers :
          (AddressOf(p) = Null /\ AddressOf(p)' = Null)
              => /\ balance'[p] = balance[p]
                 /\ Len(inflight'[p]) <= Len(inflight[p])]_vars

\* C1 amended: while a poller's address stays absent, no timer tick, activation
\* or manual refresh issues a network call for it or changes its Balance; the
\* Balance changes then only when a fetch issued earlier settles.
C1_NoFetchWithoutAddress ==
    [][\A p \in Pollers :
          (AddressOf(p) = Null /\ AddressOf(p)' = Null)
              => /\ Len(inflight'[p]) <= Len(inflight[p])
                 /\ lastOp'.op \in {"mount", "address", "tick", "refresh"}
                        => /\ inflight'[p] = inflight[p]
                           /\ balance'[p] = balance[p]
                 /\ balance'[p] # balance[p]
                        => /\ lastOp'.op \in {"resolve", "fail"}
                           /\ lastOp'.p = p
                           /\ Len(inflight'[p]) = Len(inflight[p]) - 1]_vars

\* A timer tick has just fired for a poller without address, which has no
\* fetch in flight and no Balance.
C1_Witness ==
    /\ lastOp.op = "tick"
    /\ AddressOf(lastOp.p) = Null
    /\ inflight[lastOp.p] = <<>>
    /\ balance[lastOp.p] = Undefined

\* C2: each poller has at most one live interval timer, the one its effect's
\* cleanup will clear, and none when the screen is not mounted or the poller
\* does not poll; so no tick fires after teardown or for a poller that does not poll.
C2_AtMostOneTimer ==
    /\ \A p \in Pollers :
          /\ Cardinality(intervals[p]) <= 1
          /\ \A t \in intervals[p] : t.id = cleanup[p]
          /\ (lifecycle # "mounted" \/ ~Poll(p)) => intervals[p] = {}
    /\ lastOp.op = "tick" => (lifecycle = "mounted" /\ Poll(lastOp.p))

\* The screen was torn down after its effects had run again for a new address,
\* with a fetch still in flight.
C2_Witness ==
    /\ lastOp.op = "unmount"
    /\ evmAddress = Null
    /\ inflight["base"] # <<>>
    /\ \A p \in Pollers : intervals[p] = {}

\* C3: an activation of a polling poller whose address is present issues a
\* fetch at once, and so does each tick of its timer (an address PublicKey
\* rejects fails the fetch at once instead: Balance is zero).
C3_ImmediateFetch ==
    [][\A p \in Pollers :
          LET a == AddressOf(p)'
              ran == \/ Activated(lastOp', p) /\ Poll(p)
                     \/ lastOp'.op = "tick" /\ lastOp'.p = p
              before == IF lastOp'.op = "mount" THEN <<>> ELSE inflight[p]
          IN  (ran /\ a # Null)
                  => IF Kind(p) = "solana" /\ ~IsPublicKey(a)
                     THEN balance'[p] = 0 /\ inflight'[p] = before
                     ELSE inflight'[p] = Append(before, a)]_vars

\* The screen has just mounted with both addresses present: every polling
\* poller has its first fetch in flight, before any tick.
C3_Witness ==
    /\ lastOp.op = "mount"
    /\ inflight["base"] = <<"0xA">>
    /\ inflight["baseSepolia"] = <<"0xA">>
    /\ inflight["solanaDevnet"] = <<"So1">>
    /\ inflight["solanaMainnet"] = <<>>

\* C4: when a fetch of a Solana poller fails (the network call, or the parsing
\* of the address), its Balance is zero whatever it was and the promise of
\* getBalance is fulfilled, not rejected.
C4_SolanaFailureGivesZero ==
    \A p \in Pollers :
        Kind(p) = "solana" /\ lastOp.p = p
            => /\ lastOp.op = "fail"
                   => balance[p] = 0 /\ lastOp.promise = "fulfilled"
               /\ (lastOp.op \in {"tick", "refresh"}
                      /\ solanaAddress # Null /\ ~IsPublicKey(solanaAddress))
                   => balance[p] = 0 /\ lastOp.promise = "fulfilled"
               /\ lastOp.promise # "rejected"

\* A fetch of the Solana devnet poller has just failed while the Balance was 1.
C4_Witness ==
    /\ lastOp.op = "fail"
    /\ lastOp.p = "solanaDevnet"
    /\ lastOp.was = 1
    /\ balance["solanaDevnet"] = 0

\* C5: when a fetch of an EVM poller fails, the promise of getBalance is
\* rejected and the Balance is what it was before.
C5_EvmFailureRejects ==
    \A p \in Pollers :
        (Kind(p) = "evm" /\ lastOp.op = "fail" /\ lastOp.p = p)
            => /\ lastOp.promise = "rejected"
               /\ balance[p] = lastOp.was

\* A fetch of the Base poller has just failed while the Balance was 1.
C5_Witness ==
    /\ lastOp.op = "fail"
    /\ lastOp.p = "base"
    /\ lastOp.was = 1
    /\ balance["base"] = 1

\* C6: a manual refresh with an address present issues a fetch at once,
\* whether or not the poller polls and whatever is in flight, and leaves the
\* timers as they are: none is cleared or started, a tick that is due stays
\* due and a timer that is waiting keeps waiting.
C6_RefreshFetchesNow ==
    [][lastOp'.op = "refresh"
          => LET p == lastOp'.p
                 a == AddressOf(p)
             IN  /\ intervals' = intervals
                 /\ cleanup' = cleanup
                 /\ (a # Null /\ (Kind(p) = "evm" \/ IsPublicKey(a)))
                        => inflight'[p] = Append(inflight[p], a)]_vars

\* A polling poller has just been refreshed while a fetch of its own was in
\* flight and its tick was due: it has two fetches in flight and the tick is
\* still due.
C6_Witness ==
    /\ lastOp.op = "refresh"
    /\ lastOp.p = "base"
    /\ Len(inflight["base"]) = 2
    /\ \E t \in intervals["base"] : t.due

C8_LastResolvedWins ==
    [][lastOp'.op = "resolve"
          => LET p == lastOp'.p
             IN  /\ lastOp'.idx \in 1..Len(inflight[p])
                 /\ balance'[p] = lastOp'.val
                 /\ \A q \in Pollers \ {p} : balance'[q] = balance[q]
                 /\ inflight' = [inflight EXCEPT ![p] = RemoveAt(@, lastOp'.idx)]]_vars

\* A fetch issued later has just resolved with 1, over a Balance of 0, while
\* one issued before it is still in flight.
C8_Witness ==
    /\ lastOp.op = "resolve"
    /\ lastOp.idx = 2
    /\ lastOp.val = 1
    /\ Len(inflight[lastOp.p]) = 1
    /\ balance[lastOp.p] = 1

\* C9 as stated: a poller without address has no interval timer.
C9_AsStated ==
    \A p \in Pollers : AddressOf(p) = Null => intervals[p] = {}

\* C9 amended: a mounted polling poller without address has its interval timer
\* all the same, exactly one, which holds the absent address: its ticks issue
\* no fetch.
C9_TimerWithoutAddress ==
    /\ \A p \in Pollers :
          (lifecycle = "mounted" /\ Poll(p) /\ AddressOf(p) = Null)
              => /\ Cardinality(intervals[p]) = 1
                 /\ \A t \in intervals[p] : t.address = Null
    /\ (lastOp.op = "tick" /\ AddressOf(lastOp.p) = Null)
          => lastOp.promise = "fulfilled"

\* Mounted without a Solana address: the devnet poller has a timer and no fetch.
C9_Witness ==
    /\ lifecycle = "mounted"
    /\ solanaAddress = Null
    /\ Cardinality(intervals["solanaDevnet"]) = 1
    /\ lastOp.op = "tick"
    /\ lastOp.p = "solanaDevnet"

(***************************************************************************)
(* Properties of formatSol                                                 *)
(***************************************************************************)

\* The decimal string of b / 10^9: the integer digits, then the point and the
\* nine fraction digits without their trailing zeros, if any is left.
ExactSol(b) ==
    LET p == PadTo(Decimal(b), LamportsPerSolDigits + 1)
        fraction == StripZeros(Chars(SubSeq(p, 1, LamportsPerSolDigits)))
        whole == Chars(SubSeq(p, LamportsPerSolDigits + 1, Len(p)))
    IN  IF fraction = <<>> THEN whole ELSE whole \o <<".">> \o fraction

\* C10 as stated: for every balance, the string formatted is the decimal
\* string of balance / 10^9 without trailing zeros and without a bare point.
C10_FormatSolExact ==
    formatted # <<>> => formatted = ExactSol(lamports)

\* 2^23 SOL in lamports: from here on two neighbouring Numbers are more than
\* 10^-9 apart.
FirstInexact == Lamports(8388608, 0)

\* Below 2^23 SOL the string formatted is exact; 1_500_000_000 gives "1.5",
\* 1_000_000_000 gives "1", 0 gives "0".
FormatSolExactBelowLimit ==
    formatted # <<>> =>
        /\ Less(lamports, FirstInexact) => formatted = ExactSol(lamports)
        /\ lamports = Lamports(1, 500000000) => formatted = <<"1", ".", "5">>
        /\ lamports = Lamports(1, 0) => formatted = <<"1">>
        /\ lamports = Lamports(0, 0) => formatted = <<"0">>
        /\ lamports = Lamports(10, 0) => formatted = <<"1", "0">>

====
